---- MODULE Spec2Model ----
(***************************************************************************)
(* Tracker state engine of Ivan: the Item transition rules                 *)
(* (tracker/item.go), the Tracker facade (pointer input, changeItem,       *)
(* construction) and the undo/redo history.                                *)
(*                                                                         *)
(* Indices are Go indices (0-based, -1 for "absent"); a TLA+ sequence s    *)
(* models the Go slice s with s[i] written s[i+1].                         *)
(***************************************************************************)
EXTENDS Integers, Sequences, FiniteSets, TLC

VARIABLES
    items,      \* Tracker.items: the catalog, a sequence of Item records
    undoStack,  \* Tracker.undoStack: sequence of [itemIndex, isUpgrade]
    redoStack,  \* Tracker.redoStack
    last,       \* observer: the last operation, its result and the state before it
    run,        \* observer: the current run of identical Item calls (ItemSpec)
    hist,       \* observer: the current changes / undos / redos sequence (Spec)
    events,     \* observer: the number of pointer events handled so far
    zoneItemMap,  \* Tracker.zoneItemMap: 9 rows of 9 item names ("" = undefined)
    input,        \* Tracker.input: the keypad / text input state
    ledger,       \* Tracker.woths, barrens, always, sometimes
    config,       \* App.config, as loaded
    timerRunning, \* App.timer.IsRunning()
    appErr,       \* the error App.Update returned ("none" while the app runs)
    call,         \* observer: the last lookup call, its arguments and results
    prev          \* observer: the key App.Update handled last and what came of it

appVars == <<zoneItemMap, input, ledger, config, timerRunning, appErr, call, prev>>

\* What a pointer or history event leaves alone.
keyVars == <<zoneItemMap, input, ledger, config, timerRunning, appErr, call>>

vars == <<items, undoStack, redoStack, last, run, hist, events,
          zoneItemMap, input, ledger, config, timerRunning, appErr, call, prev>>

(***************************************************************************)
(* Bounds of the model.                                                    *)
(***************************************************************************)
MaxEvents == 2      \* pointer events (clicks, wheel) in one session
MaxCountMax == 3    \* largest CountMax of a countable item
MaxCountStep == 2   \* largest CountStep of a countable item
MaxProg == 3        \* longest CapacityProgression / ItemProgression

(***************************************************************************)
(* item.go: constants                                                      *)
(***************************************************************************)
gridSize == 42
itemSpriteWidth == 34
itemSpriteHeight == itemSpriteWidth
marginTop == (gridSize - itemSpriteHeight) \div 2
marginLeft == (gridSize - itemSpriteWidth) \div 2

temples == <<"", "Free", "Deku", "DC", "Jabu", "Forest", "Fire", "Water", "Spirit", "Shdw">>

(***************************************************************************)
(* item.go: type Item.  ItemProgression entries are used only for their    *)
(* sprite origin, so each is modelled by a sprite number.                  *)
(***************************************************************************)
Item(name, x, y, caps, prog, countMax, countStep, medallion, enabled) ==
    [Name |-> name, X |-> x, Y |-> y,
     CapacityProgression |-> caps, ItemProgression |-> prog,
     upgradeIndex |-> 0, templeIndex |-> 0,
     CountMax |-> countMax, CountStep |-> countStep, count |-> 0,
     IsMedallion |-> medallion, Enabled |-> enabled]

HasCapacity(item) == Len(item.CapacityProgression) > 0

IsCountable(item) == item.CountMax # 0

Count(item) == item.count

\* Item.Capacity (value receiver): the int returned, or the index-out-of-range panic
\* of CapacityProgression[upgradeIndex].
Capacity(item) ==
    IF ~HasCapacity(item) THEN [panic |-> FALSE, value |-> -1]
    ELSE IF IsCountable(item) THEN [panic |-> FALSE, value |-> item.upgradeIndex]
    ELSE IF item.upgradeIndex \in 0..(Len(item.CapacityProgression) - 1)
    THEN [panic |-> FALSE, value |-> item.CapacityProgression[item.upgradeIndex + 1]]
    ELSE [panic |-> TRUE, value |-> 0]

countDownNoDisable(item) ==
    LET c == item.count - item.CountStep
    IN  IF c < 0 THEN [item EXCEPT !.count = 0] ELSE [item EXCEPT !.count = c]

\* countDown that disables the item without setting count back to 0.
countDownNoReset(item) ==
    LET c == item.count - item.CountStep
    IN  IF c < 0
        THEN [item EXCEPT !.count = c, !.Enabled = FALSE]
        ELSE [item EXCEPT !.count = c]

countDown(item) ==
    LET c == item.count - item.CountStep
    IN  IF c < 0
        THEN [item EXCEPT !.count = 0, !.Enabled = FALSE]
        ELSE [item EXCEPT !.count = c]

countUpNoClamp(item) == [item EXCEPT !.count = item.count + item.CountStep]

countUp(item) ==
    LET c == item.count + item.CountStep
    IN  IF c > item.CountMax
        THEN [item EXCEPT !.count = item.CountMax]
        ELSE [item EXCEPT !.count = c]

\* The "max" local of Upgrade and Downgrade.
progressionMax(item) ==
    IF Len(item.ItemProgression) > 0 THEN Len(item.ItemProgression)
    ELSE IF Len(item.CapacityProgression) > 0 THEN Len(item.CapacityProgression)
    ELSE 0

\* Upgrade with the "not upgradable" test dropped: the index wraps.
UpgradeWrap(item) ==
    IF ~item.Enabled
    THEN [item |-> [item EXCEPT !.Enabled = TRUE], changed |-> TRUE]
    ELSE IF IsCountable(item)
    THEN [item |-> countUp(item), changed |-> TRUE]
    ELSE LET max == progressionMax(item)
         IN  IF max = 0
             THEN [item |-> item, changed |-> FALSE]
             ELSE [item |-> [item EXCEPT !.upgradeIndex = (item.upgradeIndex + 1) % max],
                   changed |-> TRUE]

\* Upgrade that, on a disabled item, enables it and moves on to upgrade it.
UpgradeThrough(item) ==
    IF IsCountable(item)
    THEN [item |-> countUp([item EXCEPT !.Enabled = TRUE]), changed |-> TRUE]
    ELSE LET max == progressionMax(item)
         IN  IF max = 0 \/ (item.upgradeIndex + 1) >= max
             THEN [item |-> [item EXCEPT !.Enabled = TRUE], changed |-> ~item.Enabled]
             ELSE [item |-> [item EXCEPT !.Enabled = TRUE,
                                         !.upgradeIndex = (item.upgradeIndex + 1) % max],
                   changed |-> TRUE]

\* Upgrade that reports a change on a simple item that is already enabled.
UpgradeAlwaysChanged(item) ==
    IF ~item.Enabled
    THEN [item |-> [item EXCEPT !.Enabled = TRUE], changed |-> TRUE]
    ELSE IF IsCountable(item)
    THEN [item |-> countUp(item), changed |-> TRUE]
    ELSE LET max == progressionMax(item)
         IN  IF max = 0 \/ (item.upgradeIndex + 1) >= max
             THEN [item |-> item, changed |-> TRUE]
             ELSE [item |-> [item EXCEPT !.upgradeIndex = (item.upgradeIndex + 1) % max],
                   changed |-> TRUE]

\* Item.Upgrade: the item afterwards and the returned bool.
Upgrade(item) ==
    IF ~item.Enabled
    THEN [item |-> [item EXCEPT !.Enabled = TRUE], changed |-> TRUE]
    ELSE IF IsCountable(item)
    THEN [item |-> countUp(item), changed |-> TRUE]
    ELSE LET max == progressionMax(item)
         IN  IF max = 0 \/ (item.upgradeIndex + 1) >= max
             THEN [item |-> item, changed |-> FALSE]
             ELSE [item |-> [item EXCEPT !.upgradeIndex = (item.upgradeIndex + 1) % max],
                   changed |-> TRUE]

\* Downgrade that disables the item one tier early.
DowngradeEarly(item) ==
    IF ~item.Enabled
    THEN [item |-> item, changed |-> FALSE]
    ELSE IF IsCountable(item)
    THEN [item |-> countDown(item), changed |-> TRUE]
    ELSE LET max == progressionMax(item)
         IN  IF max = 0 \/ (item.upgradeIndex - 1) <= 0
             THEN [item |-> [item EXCEPT !.Enabled = FALSE, !.upgradeIndex = 0],
                   changed |-> TRUE]
             ELSE [item |-> [item EXCEPT !.upgradeIndex = (item.upgradeIndex - 1) % max],
                   changed |-> TRUE]

\* Item.Downgrade: the item afterwards and the returned bool.
Downgrade(item) ==
    IF ~item.Enabled
    THEN [item |-> item, changed |-> FALSE]
    ELSE IF IsCountable(item)
    THEN [item |-> countDown(item), changed |-> TRUE]
    ELSE LET max == progressionMax(item)
         IN  IF max = 0 \/ (item.upgradeIndex - 1) < 0
             THEN [item |-> [item EXCEPT !.Enabled = FALSE], changed |-> TRUE]
             ELSE [item |-> [item EXCEPT !.upgradeIndex = (item.upgradeIndex - 1) % max],
                   changed |-> TRUE]

\* CycleTemple that stops at both ends of the label set.
CycleTempleNoWrap(item, up) ==
    IF up
    THEN IF item.templeIndex + 1 >= Len(temples) THEN item
         ELSE [item EXCEPT !.templeIndex = item.templeIndex + 1]
    ELSE IF item.templeIndex - 1 < 0 THEN item
         ELSE [item EXCEPT !.templeIndex = item.templeIndex - 1]

\* Item.CycleTemple(up)
CycleTemple(item, up) ==
    IF up
    THEN [item EXCEPT !.templeIndex = (item.templeIndex + 1) % Len(temples)]
    ELSE IF item.templeIndex - 1 < 0
    THEN [item EXCEPT !.templeIndex = Len(temples) - 1]
    ELSE [item EXCEPT !.templeIndex = item.templeIndex - 1]

\* Item.Rect contains the point (x, y)  (image.Point.In: Min inclusive, Max exclusive)
InRect(item, x, y) ==
    /\ marginLeft + item.X <= x
    /\ x < marginLeft + item.X + itemSpriteWidth
    /\ marginTop + item.Y <= y
    /\ y < marginTop + item.Y + itemSpriteHeight

(***************************************************************************)
(* The Tracker: a record t of the three fields the operations touch.       *)
(***************************************************************************)
Tracker == [items |-> items, undoStack |-> undoStack, redoStack |-> redoStack]

\* s[i] of a Go slice
At(s, i) == s[i + 1]

\* getItemIndexByPos scanning from the end of the catalog.
getItemIndexByPosLast(t, x, y) ==
    LET hits == {k \in 0..(Len(t.items) - 1) : InRect(At(t.items, k), x, y)}
    IN  IF hits = {} THEN -1 ELSE CHOOSE k \in hits : \A j \in hits : k >= j

\* Tracker.getItemIndexByPos
getItemIndexByPos(t, x, y) ==
    LET hits == {k \in 0..(Len(t.items) - 1) : InRect(At(t.items, k), x, y)}
    IN  IF hits = {} THEN -1 ELSE CHOOSE k \in hits : \A j \in hits : k <= j

\* Tracker.getItemIndexByName
getItemIndexByName(t, name) ==
    LET hits == {k \in 0..(Len(t.items) - 1) : At(t.items, k).Name = name}
    IN  IF hits = {} THEN -1 ELSE CHOOSE k \in hits : \A j \in hits : k <= j

\* History.Push: append to the undo stack, clear the redo stack.
appendToUndoStack(t, itemIndex, isUpgrade) ==
    [t EXCEPT !.undoStack = Append(t.undoStack,
                                   [itemIndex |-> itemIndex, isUpgrade |-> isUpgrade]),
              !.redoStack = <<>>]

\* The method value fn of changeItem, called.
fn(item, isUpgrade) == IF isUpgrade THEN Upgrade(item) ELSE Downgrade(item)

\* changeItem pushing the entry itself, on top of the redo stack it leaves alone.
changeItemKeepRedo(t, itemIndex, isUpgrade) ==
    LET r == fn(At(t.items, itemIndex), isUpgrade)
        t1 == [t EXCEPT !.items[itemIndex + 1] = r.item]
    IN  IF r.changed
        THEN [t1 EXCEPT !.undoStack = Append(t.undoStack,
                              [itemIndex |-> itemIndex, isUpgrade |-> isUpgrade])]
        ELSE t1

\* changeItem pushing an entry whether or not the item changed.
changeItemAlwaysPush(t, itemIndex, isUpgrade) ==
    LET r == fn(At(t.items, itemIndex), isUpgrade)
        t1 == [t EXCEPT !.items[itemIndex + 1] = r.item]
    IN  appendToUndoStack(t1, itemIndex, isUpgrade)

\* Tracker.changeItem
changeItem(t, itemIndex, isUpgrade) ==
    LET r == fn(At(t.items, itemIndex), isUpgrade)
        t1 == [t EXCEPT !.items[itemIndex + 1] = r.item]
    IN  IF r.changed THEN appendToUndoStack(t1, itemIndex, isUpgrade) ELSE t1

\* Tracker.ClickLeft
ClickLeft(t, x, y) ==
    LET i == getItemIndexByPos(t, x, y)
    IN  IF i < 0 THEN t ELSE changeItem(t, i, TRUE)

\* Tracker.ClickRight
ClickRight(t, x, y) ==
    LET i == getItemIndexByPos(t, x, y)
    IN  IF i < 0 THEN t ELSE changeItem(t, i, FALSE)

\* Wheel recording the temple cycling in the history.
WheelTemplePush(t, x, y, up) ==
    LET i == getItemIndexByPos(t, x, y)
    IN  IF i < 0 THEN t
        ELSE IF At(t.items, i).IsMedallion
        THEN appendToUndoStack([t EXCEPT !.items[i + 1] = CycleTemple(At(t.items, i), up)],
                               i, up)
        ELSE IF up THEN ClickLeft(t, x, y) ELSE ClickRight(t, x, y)

\* Tracker.Wheel
Wheel(t, x, y, up) ==
    LET i == getItemIndexByPos(t, x, y)
    IN  IF i < 0 THEN t
        ELSE IF At(t.items, i).IsMedallion
        THEN [t EXCEPT !.items[i + 1] = CycleTemple(At(t.items, i), up)]
        ELSE IF up THEN ClickLeft(t, x, y) ELSE ClickRight(t, x, y)

\* History.Undo: pop, apply the inverse transition, push onto the redo stack.
Undo(t) ==
    IF t.undoStack = <<>> THEN t
    ELSE LET e == t.undoStack[Len(t.undoStack)]
             r == fn(At(t.items, e.itemIndex), ~e.isUpgrade)
         IN  [items |-> [t.items EXCEPT ![e.itemIndex + 1] = r.item],
              undoStack |-> SubSeq(t.undoStack, 1, Len(t.undoStack) - 1),
              redoStack |-> Append(t.redoStack, e)]

\* History.Redo: pop from the redo stack, re-apply, push back onto the undo stack.
Redo(t) ==
    IF t.redoStack = <<>> THEN t
    ELSE LET e == t.redoStack[Len(t.redoStack)]
             r == fn(At(t.items, e.itemIndex), e.isUpgrade)
         IN  [items |-> [t.items EXCEPT ![e.itemIndex + 1] = r.item],
              undoStack |-> Append(t.undoStack, e),
              redoStack |-> SubSeq(t.redoStack, 1, Len(t.redoStack) - 1)]

\* tracker.items[itemIndex] in changeItem: an index outside the slice panics.
changeItemPanics(t, itemIndex) == itemIndex \notin 0..(Len(t.items) - 1)

\* One of the default calls of New, changeItem(getItemIndexByName(name), true):
\* r.calls collects the indices passed; a panic ends New.
NewDefault(r, name) ==
    LET i == getItemIndexByName(r.t, name)
    IN  IF r.panic THEN r
        ELSE IF changeItemPanics(r.t, i)
        THEN [r EXCEPT !.panic = TRUE, !.calls = Append(r.calls, i)]
        ELSE [r EXCEPT !.t = changeItem(r.t, i, TRUE), !.calls = Append(r.calls, i)]

\* tracker.New run on a catalog: the Tracker literal, then the three default
\* items in the order of the source.
NewRun(its) ==
    LET r0 == [t |-> [items |-> its, undoStack |-> <<>>, redoStack |-> <<>>],
               panic |-> FALSE, calls |-> <<>>]
    IN  NewDefault(NewDefault(NewDefault(r0, "Gold Skulltula Token"),
                              "Kokiri Tunic"),
                   "Kokiri Boots")

\* tracker.New: the tracker it returns.
New(its) == NewRun(its).t

(***************************************************************************)
(* Zone-item addressing.  zm is Tracker.zoneItemMap, a [9][9]string.       *)
(***************************************************************************)
\* zm[r][c] of the Go array: indexing outside 0..8 panics.
zoneCell(zm, r, c) ==
    IF r \in 0..8 /\ c \in 0..8
    THEN [panic |-> FALSE, name |-> At(At(zm, r), c)]
    ELSE [panic |-> TRUE, name |-> ""]

\* GetZoneItem testing the digits against 0..9 instead of 1..9.
GetZoneItemFromZero(zm, zoneKP, itemKP) ==
    IF zoneKP < 0 \/ zoneKP > 9 THEN [name |-> "", err |-> "invalid zoneKP"]
    ELSE IF itemKP < 0 \/ itemKP > 9 THEN [name |-> "", err |-> "invalid itemKP"]
    ELSE LET cell == zoneCell(zm, zoneKP - 1, itemKP - 1)
         IN  IF cell.panic THEN [name |-> "", err |-> "panic"]
             ELSE IF cell.name = "" THEN [name |-> "", err |-> "no item defined"]
             ELSE [name |-> cell.name, err |-> "nil"]

\* Tracker.GetZoneItem: the name and the error returned.
GetZoneItem(zm, zoneKP, itemKP) ==
    IF zoneKP <= 0 \/ zoneKP > 9 THEN [name |-> "", err |-> "invalid zoneKP"]
    ELSE IF itemKP <= 0 \/ itemKP > 9 THEN [name |-> "", err |-> "invalid itemKP"]
    ELSE LET cell == zoneCell(zm, zoneKP - 1, itemKP - 1)
         IN  IF cell.panic THEN [name |-> "", err |-> "panic"]
             ELSE IF cell.name = "" THEN [name |-> "", err |-> "no item defined"]
             ELSE [name |-> cell.name, err |-> "nil"]

\* GetZoneItemIndex handing on the index without testing it.
GetZoneItemIndexUnchecked(t, zm, zoneKP, itemKP) ==
    LET r == GetZoneItem(zm, zoneKP, itemKP)
    IN  IF r.err # "nil" THEN [index |-> -1, err |-> r.err]
        ELSE [index |-> getItemIndexByName(t, r.name), err |-> "nil"]

\* Tracker.GetZoneItemIndex: the index and the error returned.
GetZoneItemIndex(t, zm, zoneKP, itemKP) ==
    LET r == GetZoneItem(zm, zoneKP, itemKP)
    IN  IF r.err # "nil" THEN [index |-> -1, err |-> r.err]
        ELSE LET index == getItemIndexByName(t, r.name)
             IN  IF index < 0 THEN [index |-> -1, err |-> "item name misconfigured"]
                 ELSE [index |-> index, err |-> "nil"]

(***************************************************************************)
(* Keypad and text input, Tracker.input.  inp is the input state: state is *)
(* "Idle", "ItemKPZoneInput" (a zone digit is awaited), "ItemInput" (an    *)
(* item digit is awaited) or "TextInput" (a note is typed); activeKPZone   *)
(* is the zone digit stored; buf is the text typed; mode is the list the   *)
(* note goes to.                                                           *)
(***************************************************************************)
InputIdle == [state |-> "Idle", activeKPZone |-> 0, buf |-> <<>>, mode |-> ""]

\* The key that opens the keypad chord.
Trigger == "."

Modes == {"woths", "barrens", "sometimes"}

IsDigit(c) == c \in {"1", "2", "3", "4", "5", "6", "7", "8", "9"}

DigitOf(c) ==
    CASE c = "1" -> 1 [] c = "2" -> 2 [] c = "3" -> 3 [] c = "4" -> 4 [] c = "5" -> 5
      [] c = "6" -> 6 [] c = "7" -> 7 [] c = "8" -> 8 [] c = "9" -> 9 [] OTHER -> 0

\* EatInput that no longer owns the keyboard once the zone digit is stored.
EatInputZoneOnly(inp) == inp.state \in {"ItemKPZoneInput", "TextInput"}

\* Tracker.EatInput
EatInput(inp) == inp.state # "Idle"

\* Tracker.Cancel
Cancel(inp) == InputIdle

\* Tracker.Backspace: drops the last character of the active buffer.
Backspace(inp) ==
    CASE inp.state = "ItemInput" ->
            [inp EXCEPT !.state = "ItemKPZoneInput", !.activeKPZone = 0]
      [] inp.state = "TextInput" /\ inp.buf # <<>> ->
            [inp EXCEPT !.buf = SubSeq(inp.buf, 1, Len(inp.buf) - 1)]
      [] OTHER -> inp

\* InputItemDigit upgrading the first item whenever the lookup fails.
InputItemDigitFallback(t, zm, inp, c) ==
    LET r == GetZoneItemIndex(t, zm, inp.activeKPZone, DigitOf(c))
    IN  IF r.err = "nil"
        THEN [t |-> changeItem(t, r.index, TRUE), input |-> InputIdle]
        ELSE [t |-> changeItem(t, 0, TRUE), input |-> InputIdle]

\* The item digit c received in "ItemInput": the lookup and the upgrade.
InputItemDigit(t, zm, inp, c) ==
    LET r == GetZoneItemIndex(t, zm, inp.activeKPZone, DigitOf(c))
    IN  IF r.err = "nil"
        THEN [t |-> changeItem(t, r.index, TRUE), input |-> InputIdle]
        ELSE [t |-> t, input |-> InputIdle]

\* Tracker.Input for one character c: the tracker and the input state after it.
Input(t, zm, inp, c) ==
    CASE inp.state = "Idle" ->
            IF c = Trigger
            THEN [t |-> t, input |-> [InputIdle EXCEPT !.state = "ItemKPZoneInput"]]
            ELSE [t |-> t, input |-> inp]
      [] inp.state = "ItemKPZoneInput" ->
            IF IsDigit(c)
            THEN [t |-> t, input |-> [inp EXCEPT !.state = "ItemInput",
                                                 !.activeKPZone = DigitOf(c)]]
            ELSE [t |-> t, input |-> InputIdle]
      [] inp.state = "ItemInput" ->
            IF IsDigit(c) THEN InputItemDigit(t, zm, inp, c)
            ELSE [t |-> t, input |-> InputIdle]
      [] OTHER ->
            [t |-> t, input |-> [inp EXCEPT !.buf = Append(inp.buf, c)]]

\* The free-text entry for the list mode, taken from Idle.
BeginText(inp, mode) ==
    IF inp.state = "Idle"
    THEN [InputIdle EXCEPT !.state = "TextInput", !.mode = mode]
    ELSE inp

\* Tracker.Submit: the note typed goes to its list; the input state is Idle after it.
Submit(inp, led) ==
    IF inp.state = "TextInput"
    THEN [input |-> InputIdle,
          ledger |-> [led EXCEPT ![inp.mode] = Append(led[inp.mode], inp.buf)]]
    ELSE [input |-> InputIdle, ledger |-> led]

\* Reset that keeps the history.
ResetKeepHistory(t, led, its, zm) ==
    [items |-> its, zoneItemMap |-> zm,
     undoStack |-> t.undoStack, redoStack |-> t.redoStack,
     ledger |-> [woths |-> <<>>, barrens |-> <<>>, sometimes |-> <<>>,
                 always |-> [k \in 1..7 |-> ""]]]

\* Reset that clears the redo stack only.
ResetKeepUndo(t, led, its, zm) ==
    [items |-> its, zoneItemMap |-> zm,
     undoStack |-> t.undoStack, redoStack |-> <<>>,
     ledger |-> [woths |-> <<>>, barrens |-> <<>>, sometimes |-> <<>>,
                 always |-> [k \in 1..7 |-> ""]]]

\* Tracker.Reset: the fields it assigns; the input state is not among them.
Reset(t, led, its, zm) ==
    [items |-> its, zoneItemMap |-> zm,
     undoStack |-> <<>>, redoStack |-> <<>>,
     ledger |-> [woths |-> <<>>, barrens |-> <<>>, sometimes |-> <<>>,
                 always |-> [k \in 1..7 |-> ""]]]

(***************************************************************************)
(* Observers.  They record what happened and never constrain the program.  *)
(***************************************************************************)
\* The part of an item the history is about.
Core(item) == <<item.Enabled, item.upgradeIndex, item.count>>

CoreCat(its) == [k \in 1..Len(its) |-> Core(its[k])]

Observed(op, itemIndex, isUpgrade, changed, t) ==
    [op |-> op, itemIndex |-> itemIndex, isUpgrade |-> isUpgrade,
     changed |-> changed, before |-> t]

HistOff ==
    [phase |-> "off", n |-> 0, pre |-> <<>>, post |-> <<>>, postUndo |-> <<>>,
     k |-> 0, u |-> 0]

\* A step from t to t2 by a click or wheel event: a fresh change extends (or
\* starts) the sequence of changes, anything else ends the sequence.
HistChange(h, t, t2) ==
    IF Len(t2.undoStack) # Len(t.undoStack) + 1 THEN HistOff
    ELSE IF h.phase = "changes"
    THEN [h EXCEPT !.n = h.n + 1, !.pre = Append(h.pre, CoreCat(t.items)),
                   !.post = CoreCat(t2.items), !.postUndo = t2.undoStack]
    ELSE [phase |-> "changes", n |-> 1, pre |-> <<CoreCat(t.items)>>,
          post |-> CoreCat(t2.items), postUndo |-> t2.undoStack, k |-> 0, u |-> 0]

\* An Undo on t: the k-th of the undos that follow the n changes.
HistUndo(h, t) ==
    IF t.undoStack # <<>> /\ h.phase \in {"changes", "undos"} /\ h.k < h.n
    THEN [h EXCEPT !.phase = "undos", !.k = h.k + 1]
    ELSE HistOff

\* A Redo on t: the k-th of the redos that follow the u undos.
HistRedo(h, t) ==
    IF t.redoStack # <<>> /\ h.phase = "undos"
    THEN [h EXCEPT !.phase = "redos", !.u = h.k, !.k = 1]
    ELSE IF t.redoStack # <<>> /\ h.phase = "redos" /\ h.k < h.u
    THEN [h EXCEPT !.k = h.k + 1]
    ELSE HistOff

RunOff == [op |-> "none", n |-> 0, start |-> <<>>, allChanged |-> TRUE]

\* One more call of op on the item; start is the item before the first call of the run.
RunStep(r, op, before, changed) ==
    IF r.op = op
    THEN [r EXCEPT !.n = r.n + 1, !.allChanged = r.allChanged /\ changed]
    ELSE [op |-> op, n |-> 1, start |-> before, allChanged |-> changed]

(***************************************************************************)
(* Inputs.                                                                 *)
(***************************************************************************)
MaxRun == 5     \* longest run of identical Item calls followed

\* A capacity progression and an item progression (sprite numbers) of length n.
Caps(n) == [k \in 1..n |-> 10 * k]
Sprites(n) == [k \in 1..n |-> k]

\* The catalogs the tracker is constructed with: the three default items of New
\* (a countable one whose step divides its maximum or does not, a stepped one
\* with two sprites, a simple one) and a medallion.
Catalogs ==
    { << Item("Gold Skulltula Token", 0, 0, <<>>, <<>>, c[1], c[2], FALSE, FALSE),
         Item("Kokiri Tunic", gridSize, 0, <<>>, Sprites(2), 0, 0, FALSE, FALSE),
         Item("Kokiri Boots", 2 * gridSize, 0, <<>>, <<>>, 0, 0, FALSE, FALSE),
         Item("Forest Medallion", 0, gridSize, <<>>, <<>>, 0, 0, TRUE, FALSE) >> :
        c \in {<<1, 1>>, <<3, 2>>} }

\* Pointer positions: one inside each item, one in the margin of the first.
Points ==
    { <<20, 20>>, <<gridSize + 20, 20>>, <<2 * gridSize + 20, 20>>,
      <<20, gridSize + 20>>, <<2, 2>> }

\* Every single item: simple, stepped (either or both progressions), countable.
ItemConfigs ==
    { Item("Item", 0, 0, Caps(nc), Sprites(np), cm, cs, FALSE, en) :
        nc \in 0..MaxProg, np \in 0..MaxProg,
        cm \in 0..MaxCountMax, cs \in 0..MaxCountStep, en \in BOOLEAN }

\* A zone-item map holding the given cells <<zone digit, item digit, name>>.
ZoneMapOf(cells) ==
    [z \in 1..9 |-> [i \in 1..9 |->
        LET hit == {c \in cells : c[1] = z /\ c[2] = i}
        IN  IF hit = {} THEN "" ELSE (CHOOSE c \in hit : TRUE)[3]]]

EmptyZoneMap == ZoneMapOf({})

\* Cells in the corners and the middle of the grid; "Hookshot" is in no catalog.
DefaultZoneMap ==
    ZoneMapOf({ <<1, 1, "Gold Skulltula Token">>, <<3, 7, "Kokiri Tunic">>,
                <<9, 9, "Kokiri Boots">>, <<1, 9, "Forest Medallion">>,
                <<7, 7, "Hookshot">>, <<7, 3, "Gold Skulltula Token">> })

ZoneMaps == {DefaultZoneMap, EmptyZoneMap}

LedgerEmpty ==
    [woths |-> <<>>, barrens |-> <<>>, always |-> [k \in 1..7 |-> ""], sometimes |-> <<>>]

PrevNone == [key |-> "none", char |-> "", result |-> ""]

CallNone == [fn |-> "none", zoneKP |-> 0, itemKP |-> 0, name |-> "", index |-> -1, err |-> "nil"]

\* NewApp: the fields of App and Tracker besides the catalog and the history.
AppStart(its, zm) ==
    /\ zoneItemMap = zm
    /\ input = InputIdle
    /\ ledger = LedgerEmpty
    /\ config = [Items |-> its, ZoneItemMap |-> zm]
    /\ timerRunning = FALSE
    /\ appErr = "none"
    /\ call = CallNone
    /\ prev = PrevNone

(***************************************************************************)
(* The tracker driven by App.Update: Spec                                  *)
(***************************************************************************)
Install(t) ==
    /\ items' = t.items
    /\ undoStack' = t.undoStack
    /\ redoStack' = t.redoStack

Init ==
    \E its \in Catalogs :
        LET t0 == [items |-> its, undoStack |-> <<>>, redoStack |-> <<>>]
            t1 == changeItem(t0, getItemIndexByName(t0, "Gold Skulltula Token"), TRUE)
            t2 == changeItem(t1, getItemIndexByName(t1, "Kokiri Tunic"), TRUE)
            t3 == New(its)
        IN  /\ items = t3.items
            /\ undoStack = t3.undoStack
            /\ redoStack = t3.redoStack
            /\ last = Observed("New", -1, TRUE, TRUE, t0)
            /\ run = RunOff
            /\ hist = HistChange(HistChange(HistChange(HistOff, t0, t1), t1, t2), t2, t3)
            /\ events = 0
            /\ AppStart(its, DefaultZoneMap)

\* App.Update, left mouse button
MouseLeft ==
    \E p \in Points :
        LET t == Tracker
            i == getItemIndexByPos(t, p[1], p[2])
            t2 == ClickLeft(t, p[1], p[2])
        IN  /\ events < MaxEvents
            /\ events' = events + 1
            /\ Install(t2)
            /\ last' = Observed("ClickLeft", i, TRUE,
                                i >= 0 /\ fn(At(t.items, i), TRUE).changed, t)
            /\ hist' = HistChange(hist, t, t2)
            /\ UNCHANGED run
            /\ prev' = [key |-> "MouseLeft", char |-> "", result |-> "", point |-> p]
            /\ UNCHANGED keyVars

\* App.Update, right mouse button
MouseRight ==
    \E p \in Points :
        LET t == Tracker
            i == getItemIndexByPos(t, p[1], p[2])
            t2 == ClickRight(t, p[1], p[2])
        IN  /\ events < MaxEvents
            /\ events' = events + 1
            /\ Install(t2)
            /\ last' = Observed("ClickRight", i, FALSE,
                                i >= 0 /\ fn(At(t.items, i), FALSE).changed, t)
            /\ hist' = HistChange(hist, t, t2)
            /\ UNCHANGED run
            /\ prev' = [key |-> "MouseRight", char |-> "", result |-> "", point |-> p]
            /\ UNCHANGED keyVars

\* App.Update, wheel
MouseWheel ==
    \E p \in Points, up \in BOOLEAN :
        LET t == Tracker
            i == getItemIndexByPos(t, p[1], p[2])
            t2 == Wheel(t, p[1], p[2], up)
            med == i >= 0 /\ At(t.items, i).IsMedallion
        IN  /\ events < MaxEvents
            /\ events' = events + 1
            /\ Install(t2)
            /\ last' = Observed(IF med THEN "WheelTemple" ELSE "Wheel", i, up,
                                i >= 0 /\ ~med /\ fn(At(t.items, i), up).changed, t)
            /\ hist' = HistChange(hist, t, t2)
            /\ UNCHANGED run
            /\ prev' = [key |-> "MouseWheel", char |-> "", result |-> "", point |-> p]
            /\ UNCHANGED keyVars

\* The undo key
KeyUndo ==
    LET t == Tracker
    IN  /\ appErr = "none"
        /\ Install(Undo(t))
        /\ last' = Observed("Undo", -1, FALSE, t.undoStack # <<>>, t)
        /\ hist' = HistUndo(hist, t)
        /\ UNCHANGED <<run, events>>
        /\ prev' = [key |-> "Undo", char |-> "", result |-> ""]
        /\ UNCHANGED keyVars

\* The redo key
KeyRedo ==
    LET t == Tracker
    IN  /\ appErr = "none"
        /\ Install(Redo(t))
        /\ last' = Observed("Redo", -1, FALSE, t.redoStack # <<>>, t)
        /\ hist' = HistRedo(hist, t)
        /\ UNCHANGED <<run, events>>
        /\ prev' = [key |-> "Redo", char |-> "", result |-> ""]
        /\ UNCHANGED keyVars

Next == MouseLeft \/ MouseRight \/ MouseWheel \/ KeyUndo \/ KeyRedo

Spec == Init /\ [][Next]_vars

(***************************************************************************)
(* Pointer events on a catalog with overlapping rectangles: HitSpec        *)
(***************************************************************************)
\* The tunic (index 0) lies over the right part of the token (index 1): the
\* point (20, 20) is inside both; no item is at (gridSize + 20, 20).
OverlapCatalog ==
    << Item("Kokiri Tunic", 10, 0, <<>>, Sprites(2), 0, 0, FALSE, FALSE),
       Item("Gold Skulltula Token", 0, 0, <<>>, <<>>, 3, 2, FALSE, FALSE),
       Item("Kokiri Boots", 2 * gridSize, 0, <<>>, <<>>, 0, 0, FALSE, FALSE),
       Item("Forest Medallion", 0, gridSize, <<>>, <<>>, 0, 0, TRUE, FALSE) >>

HitInit ==
    \E its \in {OverlapCatalog} :
        LET t == New(its)
        IN  /\ items = t.items
            /\ undoStack = t.undoStack
            /\ redoStack = t.redoStack
            /\ last = Observed("New", -1, TRUE, TRUE,
                                [items |-> its, undoStack |-> <<>>, redoStack |-> <<>>])
            /\ run = RunOff
            /\ hist = HistOff
            /\ events = 0
            /\ AppStart(its, DefaultZoneMap)

HitNext == MouseLeft \/ MouseRight \/ MouseWheel \/ KeyUndo \/ KeyRedo

HitSpec == HitInit /\ [][HitNext]_vars

(***************************************************************************)
(* One item under direct Upgrade and Downgrade calls: ItemSpec             *)
(***************************************************************************)
ItemInit ==
    \E it \in ItemConfigs :
        /\ items = <<it>>
        /\ undoStack = <<>>
        /\ redoStack = <<>>
        /\ last = Observed("Init", 0, TRUE, FALSE,
                           [items |-> <<it>>, undoStack |-> <<>>, redoStack |-> <<>>])
        /\ run = RunOff
        /\ hist = HistOff
        /\ events = 0
        /\ AppStart(<<it>>, EmptyZoneMap)

CallUpgrade ==
    LET r == Upgrade(items[1])
    IN  /\ run.op = "Upgrade" => run.n < MaxRun
        /\ items' = <<r.item>>
        /\ last' = Observed("Upgrade", 0, TRUE, r.changed, Tracker)
        /\ run' = RunStep(run, "Upgrade", items[1], r.changed)
        /\ UNCHANGED <<undoStack, redoStack, hist, events>>
        /\ UNCHANGED appVars

CallDowngrade ==
    LET r == Downgrade(items[1])
    IN  /\ run.op = "Downgrade" => run.n < MaxRun
        /\ items' = <<r.item>>
        /\ last' = Observed("Downgrade", 0, FALSE, r.changed, Tracker)
        /\ run' = RunStep(run, "Downgrade", items[1], r.changed)
        /\ UNCHANGED <<undoStack, redoStack, hist, events>>
        /\ UNCHANGED appVars

ItemNext == CallUpgrade \/ CallDowngrade

ItemSpec == ItemInit /\ [][ItemNext]_vars

(***************************************************************************)
(* One item under Upgrade, Downgrade and Capacity calls: CapacitySpec      *)
(***************************************************************************)
\* Item.Capacity called on the item: the item it was called on and the outcome.
CallCapacity ==
    LET r == Capacity(items[1])
    IN  /\ call' = [fn |-> "Capacity", item |-> items[1],
                    index |-> r.value, err |-> IF r.panic THEN "panic" ELSE "nil"]
        /\ UNCHANGED <<items, undoStack, redoStack, last, run, hist, events>>
        /\ UNCHANGED <<zoneItemMap, input, ledger, config, timerRunning, appErr, prev>>

CapacityNext == CallUpgrade \/ CallDowngrade \/ CallCapacity

CapacitySpec == ItemInit /\ [][CapacityNext]_vars

(***************************************************************************)
(* One medallion under CycleTemple calls: TempleSpec                       *)
(***************************************************************************)
MaxCycle == 11   \* the longest run of CycleTemple calls in one direction

TempleItems ==
    { Item("Forest Medallion", 0, gridSize, <<>>, <<>>, 0, 0, TRUE, en) : en \in BOOLEAN }

TempleInit ==
    \E it \in TempleItems :
        /\ items = <<it>>
        /\ undoStack = <<>>
        /\ redoStack = <<>>
        /\ last = Observed("Init", 0, TRUE, FALSE,
                           [items |-> <<it>>, undoStack |-> <<>>, redoStack |-> <<>>])
        /\ run = RunOff
        /\ hist = HistOff
        /\ events = 0
        /\ AppStart(<<it>>, EmptyZoneMap)

CallCycleTemple ==
    \E up \in BOOLEAN :
        LET op == IF up THEN "CycleTempleUp" ELSE "CycleTempleDown"
        IN  /\ run.op = op => run.n < MaxCycle
            /\ items' = <<CycleTemple(items[1], up)>>
            /\ run' = RunStep(run, op, items[1], TRUE)
            /\ UNCHANGED <<undoStack, redoStack, last, hist, events>>
            /\ UNCHANGED appVars

TempleNext == CallCycleTemple

TempleSpec == TempleInit /\ [][TempleNext]_vars

(***************************************************************************)
(* The zone-item lookups on a constructed tracker: ZoneSpec                *)
(***************************************************************************)
KPMargin == 1   \* how far outside 1..9 the digits handed to the lookups go

KPRange == (1 - KPMargin)..(9 + KPMargin)

\* A catalog in which two items carry the same name.
DupCatalog ==
    (CHOOSE its \in Catalogs : TRUE) \o
        << Item("Kokiri Tunic", 3 * gridSize, 0, <<>>, <<>>, 0, 0, FALSE, FALSE) >>

ZoneInit ==
    \E its \in Catalogs \cup {DupCatalog}, zm \in ZoneMaps :
        LET t == New(its)
        IN  /\ items = t.items
            /\ undoStack = t.undoStack
            /\ redoStack = t.redoStack
            /\ last = Observed("New", -1, TRUE, TRUE,
                                [items |-> its, undoStack |-> <<>>, redoStack |-> <<>>])
            /\ run = RunOff
            /\ hist = HistOff
            /\ events = 0
            /\ AppStart(its, zm)

CallGetZoneItem ==
    \E z \in KPRange, i \in KPRange :
        LET r == GetZoneItem(zoneItemMap, z, i)
        IN  /\ call' = [fn |-> "GetZoneItem", zoneKP |-> z, itemKP |-> i,
                        name |-> r.name, index |-> -1, err |-> r.err]
            /\ UNCHANGED <<items, undoStack, redoStack, last, run, hist, events>>
            /\ UNCHANGED <<zoneItemMap, input, ledger, config, timerRunning, appErr, prev>>

CallGetZoneItemIndex ==
    \E z \in KPRange, i \in KPRange :
        LET r == GetZoneItemIndex(Tracker, zoneItemMap, z, i)
        IN  /\ call' = [fn |-> "GetZoneItemIndex", zoneKP |-> z, itemKP |-> i,
                        name |-> "", index |-> r.index, err |-> r.err]
            /\ UNCHANGED <<items, undoStack, redoStack, last, run, hist, events>>
            /\ UNCHANGED <<zoneItemMap, input, ledger, config, timerRunning, appErr, prev>>

ZoneNext == CallGetZoneItem \/ CallGetZoneItemIndex

ZoneSpec == ZoneInit /\ [][ZoneNext]_vars

(***************************************************************************)
(* The keyboard handled by App.Update: AppSpec                             *)
(***************************************************************************)
Chars == {Trigger, "3", "7"}

\* The configuration the application starts with.
StartConfig ==
    [Items |-> CHOOSE its \in Catalogs : its[1].CountMax = 1, ZoneItemMap |-> DefaultZoneMap]

\* A catalog shorter than the start catalog, with the items in another order.
ShortCatalog ==
    << Item("Kokiri Tunic", 0, 0, <<>>, Sprites(2), 0, 0, FALSE, FALSE),
       Item("Gold Skulltula Token", gridSize, 0, <<>>, <<>>, 3, 2, FALSE, FALSE) >>

\* What loadConfig can return on Home: the file as it was, or a shorter catalog
\* and another map.
Configs ==
    {StartConfig, [Items |-> ShortCatalog, ZoneItemMap |-> EmptyZoneMap]}

\* The key handled and its outcome.
Prev(key, char, result) == [key |-> key, char |-> char, result |-> result]

\* The tracker before a step is recorded for pointer and history events only.
NoTracker == [items |-> <<>>, undoStack |-> <<>>, redoStack |-> <<>>]

\* What Tracker.Input makes of the character c.
InputResult(t, zm, inp, c) ==
    CASE inp.state = "Idle" -> IF c = Trigger THEN "trigger" ELSE "ignored"
      [] inp.state = "ItemKPZoneInput" -> IF IsDigit(c) THEN "zone digit" ELSE "cancelled"
      [] inp.state = "ItemInput" ->
            IF ~IsDigit(c) THEN "cancelled"
            ELSE IF GetZoneItemIndex(t, zm, inp.activeKPZone, DigitOf(c)).err = "nil"
            THEN "upgrade" ELSE "lookup failed"
      [] OTHER -> "text"

\* The item a character addresses: the index of the lookup when c completes a chord.
Addressed(t, zm, inp, c) ==
    IF inp.state = "ItemInput" /\ IsDigit(c)
    THEN GetZoneItemIndex(t, zm, inp.activeKPZone, DigitOf(c)).index
    ELSE -1

\* Tracker.Input(c) as a step of the application.
TypeChar(key, c) ==
    LET t == Tracker
        r == Input(t, zoneItemMap, input, c)
        i == Addressed(t, zoneItemMap, input, c)
        grows == r.t # t \/ Len(r.input.buf) > Len(input.buf)
    IN  /\ grows => events < MaxEvents
        /\ events' = IF grows THEN events + 1 ELSE events
        /\ Install(r.t)
        /\ input' = r.input
        /\ last' = Observed(key, i, TRUE, i >= 0 /\ fn(At(t.items, i), TRUE).changed,
                            NoTracker)
        /\ prev' = Prev(key, c, InputResult(t, zoneItemMap, input, c))
        /\ hist' = HistOff
        /\ UNCHANGED <<run, zoneItemMap, ledger, config, timerRunning, appErr, call>>

\* A step of the application that leaves the catalog and the history alone.
KeepTracker(key) ==
    /\ last' = Observed(key, -1, FALSE, FALSE, NoTracker)
    /\ hist' = HistOff
    /\ UNCHANGED <<items, undoStack, redoStack, run, call>>

AppInit ==
    \E its \in {StartConfig.Items} :
        LET t == New(its)
        IN  /\ items = t.items
            /\ undoStack = t.undoStack
            /\ redoStack = t.redoStack
            /\ last = Observed("New", -1, TRUE, TRUE,
                                [items |-> its, undoStack |-> <<>>, redoStack |-> <<>>])
            /\ run = RunOff
            /\ hist = HistOff
            /\ events = 0
            /\ AppStart(its, DefaultZoneMap)

\* App.Update, default case: a character typed
KeyChar ==
    \E c \in Chars :
        /\ appErr = "none"
        /\ TypeChar("Char", c)

\* The key that opens a note for one of the lists
KeyNote ==
    \E mode \in Modes :
        /\ appErr = "none"
        /\ input.state = "Idle"
        /\ input' = BeginText(input, mode)
        /\ prev' = Prev("Note", "", mode)
        /\ KeepTracker("Note")
        /\ UNCHANGED <<events, zoneItemMap, ledger, config, timerRunning, appErr>>

\* The Escape case closing as soon as one of its two conditions holds.
KeyEscapeEither ==
    /\ appErr = "none"
    /\ IF ~timerRunning \/ ~EatInput(input)
       THEN /\ appErr' = "errCloseApp"
            /\ prev' = Prev("Escape", "", "close")
            /\ UNCHANGED input
       ELSE /\ input' = Cancel(input)
            /\ prev' = Prev("Escape", "", "cancel")
            /\ UNCHANGED appErr
    /\ KeepTracker("Escape")
    /\ UNCHANGED <<events, zoneItemMap, ledger, config, timerRunning>>

\* App.Update, Escape
KeyEscape ==
    /\ appErr = "none"
    /\ IF ~timerRunning /\ ~EatInput(input)
       THEN /\ appErr' = "errCloseApp"
            /\ prev' = Prev("Escape", "", "close")
            /\ UNCHANGED input
       ELSE /\ input' = Cancel(input)
            /\ prev' = Prev("Escape", "", "cancel")
            /\ UNCHANGED appErr
    /\ KeepTracker("Escape")
    /\ UNCHANGED <<events, zoneItemMap, ledger, config, timerRunning>>

\* The Home case storing what loadConfig returned before it looks at the error.
KeyHomeEager ==
    /\ appErr = "none"
    /\ IF timerRunning
       THEN /\ prev' = Prev("Home", "", "skipped")
            /\ KeepTracker("Home")
            /\ UNCHANGED <<zoneItemMap, ledger, config, appErr>>
       ELSE \/ /\ appErr' = "load error"
               /\ config' = [Items |-> <<>>, ZoneItemMap |-> EmptyZoneMap]
               /\ prev' = Prev("Home", "", "load error")
               /\ KeepTracker("Home")
               /\ UNCHANGED <<zoneItemMap, ledger>>
            \/ \E cfg \in Configs :
                   LET r == Reset(Tracker, ledger, cfg.Items, cfg.ZoneItemMap)
                   IN  /\ config' = cfg
                       /\ Install(r)
                       /\ zoneItemMap' = r.zoneItemMap
                       /\ ledger' = r.ledger
                       /\ last' = Observed("Home", -1, FALSE, FALSE, NoTracker)
                       /\ prev' = Prev("Home", "", "reset")
                       /\ hist' = HistOff
                       /\ UNCHANGED <<run, call, appErr>>
    /\ UNCHANGED <<events, input, timerRunning>>

\* App.Update, Home
KeyHome ==
    /\ appErr = "none"
    /\ IF timerRunning
       THEN /\ prev' = Prev("Home", "", "skipped")
            /\ KeepTracker("Home")
            /\ UNCHANGED <<zoneItemMap, ledger, config, appErr>>
       ELSE \/ /\ appErr' = "load error"
               /\ prev' = Prev("Home", "", "load error")
               /\ KeepTracker("Home")
               /\ UNCHANGED <<zoneItemMap, ledger, config>>
            \/ \E cfg \in Configs :
                   LET r == Reset(Tracker, ledger, cfg.Items, cfg.ZoneItemMap)
                   IN  /\ config' = cfg
                       /\ Install(r)
                       /\ zoneItemMap' = r.zoneItemMap
                       /\ ledger' = r.ledger
                       /\ last' = Observed("Home", -1, FALSE, FALSE, NoTracker)
                       /\ prev' = Prev("Home", "", "reset")
                       /\ hist' = HistOff
                       /\ UNCHANGED <<run, call, appErr>>
    /\ UNCHANGED <<events, input, timerRunning>>

\* App.Update, Enter
KeyEnter ==
    LET r == Submit(input, ledger)
    IN  /\ appErr = "none"
        /\ r.ledger # ledger => events < MaxEvents
        /\ events' = IF r.ledger # ledger THEN events + 1 ELSE events
        /\ input' = r.input
        /\ ledger' = r.ledger
        /\ prev' = Prev("Enter", "", "submit")
        /\ KeepTracker("Enter")
        /\ UNCHANGED <<zoneItemMap, config, timerRunning, appErr>>

\* App.Update, Space: a blank for the input, or the timer toggled
KeySpace ==
    /\ appErr = "none"
    /\ IF EatInput(input)
       THEN TypeChar("Space", " ")
       ELSE /\ timerRunning' = ~timerRunning
            /\ prev' = Prev("Space", "", "toggle")
            /\ KeepTracker("Space")
            /\ UNCHANGED <<events, zoneItemMap, input, ledger, config, appErr>>

\* App.Update, Delete: the timer reset, running or not after it
KeyDelete ==
    \E running \in BOOLEAN :
        /\ appErr = "none"
        /\ timerRunning' = running
        /\ prev' = Prev("Delete", "", "timer reset")
        /\ KeepTracker("Delete")
        /\ UNCHANGED <<events, zoneItemMap, input, ledger, config, appErr>>

\* App.Update, Backspace
KeyBackspace ==
    /\ appErr = "none"
    /\ input' = Backspace(input)
    /\ prev' = Prev("Backspace", "", "backspace")
    /\ KeepTracker("Backspace")
    /\ UNCHANGED <<events, zoneItemMap, ledger, config, timerRunning, appErr>>

AppNext ==
    \/ KeyChar \/ KeyNote \/ KeyEscape \/ KeyHome \/ KeyEnter \/ KeySpace
    \/ KeyDelete \/ KeyBackspace \/ KeyUndo \/ KeyRedo

AppSpec == AppInit /\ [][AppNext]_vars

(***************************************************************************)
(* Pointer events, keypad chords, Undo, Redo and Home: HistorySpec         *)
(***************************************************************************)
HistoryNext ==
    \/ MouseLeft \/ MouseRight \/ MouseWheel \/ KeyChar
    \/ KeyUndo \/ KeyRedo \/ KeyHome

HistorySpec == AppInit /\ [][HistoryNext]_vars

(***************************************************************************)
(* New on every catalog, then pointer events, Undo, Redo, Home: StartSpec  *)
(***************************************************************************)
\* The catalogs New is run on: the two of Catalogs, one whose token has no
\* CountStep, the short one (no boots) and one without the token.
StartCatalogs ==
    Catalogs \cup
    { << Item("Gold Skulltula Token", 0, 0, <<>>, <<>>, 3, 0, FALSE, FALSE),
         Item("Kokiri Tunic", gridSize, 0, <<>>, Sprites(2), 0, 0, FALSE, FALSE),
         Item("Kokiri Boots", 2 * gridSize, 0, <<>>, <<>>, 0, 0, FALSE, FALSE),
         Item("Forest Medallion", 0, gridSize, <<>>, <<>>, 0, 0, TRUE, FALSE) >>,
      ShortCatalog,
      << Item("Kokiri Tunic", gridSize, 0, <<>>, Sprites(2), 0, 0, FALSE, FALSE),
         Item("Kokiri Boots", 2 * gridSize, 0, <<>>, <<>>, 0, 0, FALSE, FALSE),
         Item("Forest Medallion", 0, gridSize, <<>>, <<>>, 0, 0, TRUE, FALSE) >> }

\* The state when New returns or panics; a panic ends the process.
StartInit ==
    \E its \in StartCatalogs :
        LET r == NewRun(its)
        IN  /\ items = r.t.items
            /\ undoStack = r.t.undoStack
            /\ redoStack = r.t.redoStack
            /\ last = Observed("New", -1, TRUE, TRUE,
                                [items |-> its, undoStack |-> <<>>, redoStack |-> <<>>])
            /\ run = RunOff
            /\ hist = IF r.panic THEN HistOff
                      ELSE [phase |-> "changes", n |-> 3, pre |-> <<>>,
                            post |-> CoreCat(r.t.items), postUndo |-> r.t.undoStack,
                            k |-> 0, u |-> 0]
            /\ events = 0
            /\ zoneItemMap = DefaultZoneMap
            /\ input = InputIdle
            /\ ledger = LedgerEmpty
            /\ config = [Items |-> its, ZoneItemMap |-> DefaultZoneMap]
            /\ timerRunning = FALSE
            /\ appErr = IF r.panic THEN "panic" ELSE "none"
            /\ call = [fn |-> "New", catalog |-> its, calls |-> r.calls]
            /\ prev = PrevNone

StartNext ==
    \/ MouseLeft \/ MouseRight \/ MouseWheel
    \/ KeyUndo \/ KeyRedo \/ KeyHome

StartSpec == StartInit /\ [][StartNext]_vars

(***************************************************************************)
(* Properties.                                                             *)
(***************************************************************************)
\* The item of ItemSpec, now and before the last call.
TheItem == items[1]
ItemBefore == At(last.before.items, 0)

PointerOps == {"ClickLeft", "ClickRight", "Wheel"}

\* C1 (Spec): undo round trip.  After n changes that each pushed a history entry,
\* k <= n Undo calls restore every item (enabled, upgrade index, count) to its
\* state before the last k of the changes; with k = n, to the state before the
\* sequence.
C1_UndoRoundTrip ==
    hist.phase = "undos" => CoreCat(items) = hist.pre[hist.n - hist.k + 1]

\* C2 (Spec): redo round trip.  After a sequence of changes, u Undo calls and then
\* u Redo calls, every item is in the state it had right after the changes, the
\* undo stack holds the same entries in the same order and the redo stack is empty.
C2_RedoRoundTrip ==
    (hist.phase = "redos" /\ hist.k = hist.u) =>
        /\ CoreCat(items) = hist.post
        /\ undoStack = hist.postUndo
        /\ redoStack = <<>>

\* C3 (Spec): history branch invalidation.  Whenever a click or wheel event pushes
\* a new history entry, the redo stack is empty afterwards, so that no Redo is
\* possible after Undo calls followed by a fresh change.
C3_PushClearsRedo ==
    (last.op \in PointerOps /\ Len(undoStack) = Len(last.before.undoStack) + 1) =>
        /\ redoStack = <<>>
        /\ Redo(Tracker) = Tracker

\* C3 witness: a fresh change was made while entries were waiting to be redone.
C3_Witness ==
    /\ last.op \in PointerOps
    /\ last.changed
    /\ last.before.redoStack # <<>>
    /\ Len(undoStack) = Len(last.before.undoStack) + 1
    /\ redoStack = <<>>

\* C4 (Spec): a click or wheel event on an item pushes a history entry only if the
\* item changed: the undo stack is unchanged when (enabled, upgrade index, count)
\* is the same before and after, and gains exactly the entry {item index,
\* direction} when it differs.
C4_PushOnlyIfChanged ==
    (last.op \in PointerOps /\ last.itemIndex >= 0) =>
        LET i == last.itemIndex
            b == last.before
        IN  IF Core(At(b.items, i)) = Core(At(items, i))
            THEN undoStack = b.undoStack
            ELSE undoStack = Append(b.undoStack,
                                    [itemIndex |-> i, isUpgrade |-> last.isUpgrade])

IsSimple(item) ==
    /\ Len(item.CapacityProgression) = 0
    /\ Len(item.ItemProgression) = 0
    /\ item.CountMax = 0

\* C5 (ItemSpec): an item with only an enabled flag.  Upgrade from disabled enables
\* it and returns true; Upgrade on the enabled item returns false and changes
\* nothing; Downgrade on the enabled item disables it and returns true; upgrade
\* index and count stay 0.
C5_SimpleItem ==
    IsSimple(TheItem) =>
        /\ TheItem.upgradeIndex = 0
        /\ TheItem.count = 0
        /\ (last.op = "Upgrade" /\ ~ItemBefore.Enabled) =>
               (last.changed /\ TheItem = [ItemBefore EXCEPT !.Enabled = TRUE])
        /\ (last.op = "Upgrade" /\ ItemBefore.Enabled) =>
               (~last.changed /\ TheItem = ItemBefore)
        /\ (last.op = "Downgrade" /\ ItemBefore.Enabled) =>
               (last.changed /\ TheItem = [ItemBefore EXCEPT !.Enabled = FALSE])

\* C5 witness: Upgrade was called on a simple item that was already enabled.
C5_Witness ==
    /\ IsSimple(TheItem)
    /\ last.op = "Upgrade"
    /\ ItemBefore.Enabled
    /\ ~last.changed

IsSteppedCap(item) ==
    /\ ~IsCountable(item)
    /\ Len(item.CapacityProgression) >= 1
    /\ Len(item.ItemProgression) = 0

\* The last n >= 1 calls were Upgrade calls, the first of them on the disabled item.
UpgradesFromDisabled(n) ==
    n >= 1 /\ run.op = "Upgrade" /\ run.n = n /\ ~run.start.Enabled

\* C8 as stated (ItemSpec): for a stepped item with a capacity progression of
\* length N, N-1 Upgrade calls from the disabled state leave it enabled with
\* upgrade_index = N-1 (stated for N >= 2, where at least one call is made).
C8_TopAfterNMinus1 ==
    (IsSteppedCap(TheItem)
        /\ UpgradesFromDisabled(Len(TheItem.CapacityProgression) - 1)) =>
        /\ TheItem.Enabled
        /\ TheItem.upgradeIndex = Len(TheItem.CapacityProgression) - 1

\* C8 amended (ItemSpec): the first Upgrade from the disabled state only enables
\* the item; after k calls, 1 <= k <= N, it is enabled with upgrade_index = k-1,
\* so it takes N calls to reach the top tier N-1.
C8_TopAfterN ==
    IsSteppedCap(TheItem) =>
        \A k \in 1..Len(TheItem.CapacityProgression) :
            UpgradesFromDisabled(k) =>
                /\ TheItem.Enabled
                /\ TheItem.upgradeIndex = k - 1
                /\ run.allChanged

\* C8 witness: N >= 2 Upgrade calls from disabled have reached the top tier.
C8_Witness ==
    /\ IsSteppedCap(TheItem)
    /\ Len(TheItem.CapacityProgression) >= 2
    /\ UpgradesFromDisabled(Len(TheItem.CapacityProgression))
    /\ TheItem.upgradeIndex = Len(TheItem.CapacityProgression) - 1

\* The progression length of the source: item progression if non-empty, else
\* capacity progression.
ProgressionLength(item) ==
    IF item.ItemProgression # <<>> THEN Len(item.ItemProgression)
    ELSE Len(item.CapacityProgression)

\* C9 (ItemSpec): Upgrade does not wrap.  On a non-countable enabled item with
\* progression length max, Upgrade with max = 0 or upgrade_index + 1 >= max
\* returns false and changes nothing; otherwise it raises upgrade_index by exactly
\* 1 and returns true.  No run of Upgrade calls lowers upgrade_index.
C9_UpgradeNoWrap ==
    /\ (last.op = "Upgrade" /\ ItemBefore.Enabled /\ ~IsCountable(ItemBefore)) =>
           LET max == ProgressionLength(ItemBefore)
           IN  IF max = 0 \/ ItemBefore.upgradeIndex + 1 >= max
               THEN ~last.changed /\ TheItem = ItemBefore
               ELSE /\ last.changed
                    /\ TheItem = [ItemBefore EXCEPT
                                     !.upgradeIndex = ItemBefore.upgradeIndex + 1]
    /\ last.op = "Upgrade" => TheItem.upgradeIndex >= ItemBefore.upgradeIndex
    /\ run.op = "Upgrade" => TheItem.upgradeIndex >= run.start.upgradeIndex

\* C9 witness: Upgrade was refused at the top tier of a progression of 2 or more.
C9_Witness ==
    /\ last.op = "Upgrade"
    /\ ItemBefore.Enabled
    /\ ~IsCountable(ItemBefore)
    /\ ProgressionLength(ItemBefore) >= 2
    /\ ItemBefore.upgradeIndex + 1 = ProgressionLength(ItemBefore)
    /\ ~last.changed

\* C10 (ItemSpec): a stepped item with progression length N, starting enabled at
\* the top tier N-1.  Each of N Downgrade calls returns true; after k < N of them
\* the item is still enabled with upgrade_index = N-1-k, and the N-th disables it
\* with upgrade_index 0.
C10_DowngradesFromTop ==
    LET N == ProgressionLength(TheItem)
    IN  (/\ ~IsCountable(TheItem)
         /\ N >= 1
         /\ run.op = "Downgrade"
         /\ run.start.Enabled
         /\ run.start.upgradeIndex = N - 1
         /\ run.n <= N) =>
            /\ run.allChanged
            /\ run.n < N => (TheItem.Enabled /\ TheItem.upgradeIndex = N - 1 - run.n)
            /\ run.n = N => (~TheItem.Enabled /\ TheItem.upgradeIndex = 0)

\* C10 witness: the N-th Downgrade from the top of a progression of 2 or more.
C10_Witness ==
    /\ ~IsCountable(TheItem)
    /\ ProgressionLength(TheItem) >= 2
    /\ run.op = "Downgrade"
    /\ run.start.Enabled
    /\ run.start.upgradeIndex = ProgressionLength(TheItem) - 1
    /\ run.n = ProgressionLength(TheItem)
    /\ ~TheItem.Enabled

RangeErrors == {"invalid zoneKP", "invalid itemKP"}

\* C11 (ZoneSpec): GetZoneItem fails with a range error when the zone or the item
\* digit is outside 1..9, fails with the undefined-mapping error when the cell
\* map[zone-1][item-1] is empty, otherwise returns exactly that cell; it never
\* indexes outside the 9x9 grid and leaves the tracker as New made it.
C11_GetZoneItem ==
    call.fn = "GetZoneItem" =>
        /\ call.err # "panic"
        /\ IF call.zoneKP \notin 1..9 \/ call.itemKP \notin 1..9
           THEN call.err \in RangeErrors /\ call.name = ""
           ELSE IF zoneItemMap[call.zoneKP][call.itemKP] = ""
           THEN call.err = "no item defined" /\ call.name = ""
           ELSE call.err = "nil" /\ call.name = zoneItemMap[call.zoneKP][call.itemKP]
        /\ Tracker = New(config.Items)
        /\ zoneItemMap = config.ZoneItemMap

\* C11 witness: the digit 0 was refused as a zone.
C11_Witness ==
    /\ call.fn = "GetZoneItem"
    /\ call.zoneKP = 0
    /\ call.itemKP = 5
    /\ call.err \in RangeErrors

\* C12 (ZoneSpec): GetZoneItemIndex hands on every failure of GetZoneItem with
\* index -1; when GetZoneItem returns a name, it fails with the misconfiguration
\* error and index -1 if no item of the catalog has that name, and otherwise
\* returns the smallest index of an item with that name.  A map naming an absent
\* item is accepted at construction.
C12_GetZoneItemIndex ==
    call.fn = "GetZoneItemIndex" =>
        LET r == GetZoneItem(zoneItemMap, call.zoneKP, call.itemKP)
            named == {k \in 0..(Len(items) - 1) : At(items, k).Name = r.name}
        IN  IF r.err # "nil"
            THEN call.err = r.err /\ call.index = -1
            ELSE IF named = {}
            THEN call.err = "item name misconfigured" /\ call.index = -1
            ELSE /\ call.err = "nil"
                 /\ call.index \in named
                 /\ \A k \in named : call.index <= k

\* C12 witness: a cell naming an item absent from the catalog was looked up.
C12_Witness ==
    /\ call.fn = "GetZoneItemIndex"
    /\ call.zoneKP = 7
    /\ call.itemKP = 7
    /\ zoneItemMap[7][7] = "Hookshot"
    /\ call.err = "item name misconfigured"
    /\ call.index = -1

TrackerNext == [items |-> items', undoStack |-> undoStack', redoStack |-> redoStack']

\* The indices of the items named by the cell map[z-1][d-1]; empty if none is.
NamedBy(z, d) ==
    IF zoneItemMap[z][d] = "" THEN {}
    ELSE {k \in 0..(Len(items) - 1) : At(items, k).Name = zoneItemMap[z][d]}

Smallest(S) == CHOOSE k \in S : \A j \in S : k <= j

\* C13 (AppSpec): from Idle the trigger key leads to the state awaiting the zone
\* digit; there a digit z is stored and the item digit is awaited, the tracker
\* untouched so far; there a digit d whose cell map[z-1][d-1] names an item of
\* the catalog applies one Upgrade to the first item of that name, as a left
\* click on it does, pushes a history entry exactly when Upgrade reports a
\* change, leaves every other item alone and returns the input state to Idle.
C13_KeypadChord ==
    [][ prev'.key = "Char" =>
          /\ (input.state = "Idle" /\ prev'.char = Trigger) =>
                /\ input'.state = "ItemKPZoneInput"
                /\ TrackerNext = Tracker
          /\ (input.state = "ItemKPZoneInput" /\ IsDigit(prev'.char)) =>
                /\ input'.state = "ItemInput"
                /\ input'.activeKPZone = DigitOf(prev'.char)
                /\ TrackerNext = Tracker
          /\ (/\ input.state = "ItemInput"
              /\ IsDigit(prev'.char)
              /\ NamedBy(input.activeKPZone, DigitOf(prev'.char)) # {}) =>
                LET i == Smallest(NamedBy(input.activeKPZone, DigitOf(prev'.char)))
                    u == Upgrade(At(items, i))
                IN  /\ items' = [items EXCEPT ![i + 1] = u.item]
                    /\ undoStack' =
                         IF u.changed
                         THEN Append(undoStack, [itemIndex |-> i, isUpgrade |-> TRUE])
                         ELSE undoStack
                    /\ TrackerNext = ClickLeft(Tracker, marginLeft + At(items, i).X,
                                                           marginTop + At(items, i).Y)
                    /\ input' = InputIdle
      ]_vars

\* C13 witness: the chord 3, 7 raised the tunic (item 1) by one tier and pushed
\* a fourth history entry.
C13_Witness ==
    /\ prev = [key |-> "Char", char |-> "7", result |-> "upgrade"]
    /\ last.itemIndex = 1
    /\ last.changed
    /\ At(items, 1).upgradeIndex = 1
    /\ Len(undoStack) = 4
    /\ input = InputIdle

\* C14 (AppSpec): EatInput is true exactly when the input state is not Idle: false
\* at start, true right after the trigger key, true while a digit or a note is
\* pending, and false after Cancel, after Submit and after the item digit of a
\* chord, whether its lookup succeeded or failed.
C14_EatInput ==
    /\ EatInput(input) <=> input.state # "Idle"
    /\ prev.key = "none" => ~EatInput(input)
    /\ prev.result \in {"trigger", "zone digit", "text"} => EatInput(input)
    /\ prev.result \in {"cancel", "submit", "upgrade", "lookup failed", "cancelled"}
          => ~EatInput(input)

\* C14 witness: the zone digit is stored, the item digit pending.
C14_Witness ==
    /\ prev.result = "zone digit"
    /\ input.state = "ItemInput"
    /\ input.activeKPZone = 3
    /\ EatInput(input)

\* The character c does not complete a chord from the input state inp: it is no
\* digit, or the cell it addresses is empty or names no item of the catalog.
FailsLookup(inp, c) ==
    \/ ~IsDigit(c)
    \/ inp.state = "ItemInput" /\ NamedBy(inp.activeKPZone, DigitOf(c)) = {}

\* C15 (AppSpec): while a zone or an item digit is awaited, a character that is
\* no digit, or an item digit whose lookup fails (empty cell, or a name absent
\* from the catalog), returns the input state to Idle and changes neither the
\* catalog, nor the undo or redo stack, nor the hint ledger, and no error
\* leaves App.Update.
C15_FailedLookupSilent ==
    [][ (/\ prev'.key \in {"Char", "Space"}
         /\ input.state \in {"ItemKPZoneInput", "ItemInput"}
         /\ FailsLookup(input, prev'.char)) =>
            /\ input' = InputIdle
            /\ TrackerNext = Tracker
            /\ ledger' = ledger
            /\ appErr' = appErr
      ]_vars

\* C15 witness: the chord 7, 7 addressed "Hookshot", which no item is called
\* (of the cells (3,7) and (7,7) only the latter fails), with history present.
C15_Witness ==
    /\ prev = [key |-> "Char", char |-> "7", result |-> "lookup failed"]
    /\ zoneItemMap[7][7] = "Hookshot"
    /\ input = InputIdle
    /\ Len(undoStack) = 3

\* C16 (AppSpec): Reset installs the new catalog and zone-item map and clears
\* the history and the hint ledger in one step: after it the items and the map
\* are the ones loaded, the undo and redo stacks are empty, woths, barrens and
\* sometimes are empty and the 7 always slots are empty strings; an Undo or a
\* Redo right after it changes nothing.
C16_Reset ==
    [][ /\ (prev'.key = "Home" /\ prev'.result = "reset") =>
              /\ items' = config'.Items
              /\ zoneItemMap' = config'.ZoneItemMap
              /\ undoStack' = <<>>
              /\ redoStack' = <<>>
              /\ ledger'.woths = <<>>
              /\ ledger'.barrens = <<>>
              /\ ledger'.sometimes = <<>>
              /\ DOMAIN ledger'.always = 1..7
              /\ \A k \in 1..7 : ledger'.always[k] = ""
        /\ (/\ prev.key = "Home"
            /\ prev.result = "reset"
            /\ prev'.key \in {"Undo", "Redo"}) =>
              /\ TrackerNext = Tracker
              /\ zoneItemMap' = zoneItemMap
              /\ ledger' = ledger
      ]_vars

\* C16 witness: Home replaced the catalog and the map the application started
\* with (3 history entries at least) by the other configuration.
C16_Witness ==
    /\ prev = [key |-> "Home", char |-> "", result |-> "reset"]
    /\ config # StartConfig
    /\ items = config.Items
    /\ zoneItemMap = EmptyZoneMap
    /\ undoStack = <<>>
    /\ redoStack = <<>>

\* C17 (AppSpec): when Home is handled and loading the configuration fails, the
\* error leaves App.Update and app.config, the catalog, the zone-item map, the
\* undo and redo stacks and the hint ledger are as before; the tracker is reset
\* only after a successful load and only while the timer is not running.
C17_HomeAllOrNothing ==
    [][ prev'.key = "Home" =>
          /\ appErr' # "none" =>
                /\ appErr' = "load error"
                /\ config' = config
                /\ TrackerNext = Tracker
                /\ zoneItemMap' = zoneItemMap
                /\ ledger' = ledger
          /\ (\/ TrackerNext # Tracker
              \/ zoneItemMap' # zoneItemMap
              \/ ledger' # ledger
              \/ config' # config
              \/ prev'.result = "reset") =>
                /\ ~timerRunning
                /\ appErr' = "none"
                /\ config' \in Configs
          /\ timerRunning => prev'.result = "skipped"
      ]_vars

\* C17 witness: the load failed with a fourth history entry and a note present.
C17_Witness ==
    /\ prev = [key |-> "Home", char |-> "", result |-> "load error"]
    /\ appErr = "load error"
    /\ Len(undoStack) = 4
    /\ Len(ledger.barrens) = 1
    /\ config = StartConfig

\* C20 (AppSpec): Escape pressed while the input state is not Idle does not close
\* the application; it returns the input state to Idle with the buffers
\* cleared and changes neither the catalog, nor the history, nor the hint
\* ledger.  Escape closes the application exactly when the timer is not running
\* and the input state is Idle.
C20_EscapeCancel ==
    [][ prev'.key = "Escape" =>
          /\ input.state # "Idle" =>
                /\ appErr' = "none"
                /\ input' = [state |-> "Idle", activeKPZone |-> 0, buf |-> <<>>, mode |-> ""]
                /\ TrackerNext = Tracker
                /\ ledger' = ledger
          /\ appErr' = "errCloseApp" <=> (~timerRunning /\ input.state = "Idle")
      ]_vars

\* C20 witness: Escape was consumed with the timer stopped, so input was pending.
C20_Witness ==
    /\ prev = [key |-> "Escape", char |-> "", result |-> "cancel"]
    /\ ~timerRunning
    /\ appErr = "none"
    /\ input.state = "Idle"
    /\ Len(undoStack) = 4

\* The temple index after the run of CycleTemple calls, were the label set n long.
CycledOver(n) ==
    IF run.op = "CycleTempleUp"
    THEN (run.start.templeIndex + run.n) % n
    ELSE (run.start.templeIndex + 2 * n - run.n) % n

InCycleRun == run.op \in {"CycleTempleUp", "CycleTempleDown"}

\* C18 as stated (TempleSpec): CycleTemple cycles the temple index over a label
\* set of 9 entries, wrapping in both directions: the index is always one of
\* the set, and 9 consecutive calls in one direction return it to its start.
C18_NineLabels ==
    /\ TheItem.templeIndex \in 0..8
    /\ InCycleRun => TheItem.templeIndex = CycledOver(9)
    /\ (InCycleRun /\ run.n = 9) => TheItem.templeIndex = run.start.templeIndex

\* C18 (TempleSpec): CycleTemple cycles the temple index over the label set of
\* 10 entries (the empty label and 9 names), wrapping in both directions: the
\* index is always one of 0..9, up from 9 gives 0 and down from 0 gives 9, and
\* it is back at its start after 10 consecutive calls in one direction, and
\* not before.
C18_TenLabels ==
    /\ Len(temples) = 10
    /\ TheItem.templeIndex \in 0..(Len(temples) - 1)
    /\ InCycleRun => TheItem.templeIndex = CycledOver(10)
    /\ (InCycleRun /\ run.n = 10) => TheItem.templeIndex = run.start.templeIndex
    /\ (InCycleRun /\ run.n < 10) => TheItem.templeIndex # run.start.templeIndex
    /\ InCycleRun => TheItem.Enabled = run.start.Enabled

\* C18 witness: ten calls downwards, through the wrap from the first entry to
\* the last, are back at the third entry.
C18_Witness ==
    /\ run.op = "CycleTempleDown"
    /\ run.n = 10
    /\ run.start.templeIndex = 2
    /\ TheItem.templeIndex = 2

\* C19 (CapacitySpec): Capacity returns -1 for an item without a capacity
\* progression, the raw upgrade index for a countable item with one, and
\* CapacityProgression[upgradeIndex] for every other item.
C19_Capacity ==
    call.fn = "Capacity" =>
        /\ call.err = "nil"
        /\ IF Len(call.item.CapacityProgression) = 0 THEN call.index = -1
           ELSE IF call.item.CountMax # 0 THEN call.index = call.item.upgradeIndex
           ELSE /\ call.item.upgradeIndex + 1 \in DOMAIN call.item.CapacityProgression
                /\ call.index = call.item.CapacityProgression[call.item.upgradeIndex + 1]

\* C21 (ItemSpec): item transitions are reversible given the direction.  When an
\* Upgrade returned true, a Downgrade right after it returns true and restores
\* (enabled, upgrade index, count); when a Downgrade returned true, an Upgrade
\* right after it returns true and restores them.
C21_Reversible ==
    [][ /\ (last.op = "Upgrade" /\ last.changed /\ last'.op = "Downgrade") =>
              /\ last'.changed
              /\ Core(items'[1]) = Core(ItemBefore)
        /\ (last.op = "Downgrade" /\ last.changed /\ last'.op = "Upgrade") =>
              /\ last'.changed
              /\ Core(items'[1]) = Core(ItemBefore)
      ]_vars

\* The number of Downgrade calls after which the item s is disabled, when every
\* call lowers a count above 0 or the tier by at least one.
DowngradesToOff(s) ==
    IF ~s.Enabled THEN 0
    ELSE IF IsCountable(s) THEN s.count + 1
    ELSE s.upgradeIndex + 1

\* The number of Upgrade calls after which the disabled item s no longer changes.
UpgradesToTop(s) ==
    IF IsCountable(s) THEN 1 + s.CountMax
    ELSE 1 + ProgressionLength(s)

\* C22 (ItemSpec): the ratchet walk.  Every Downgrade on an enabled item returns
\* true and every Downgrade on a disabled one returns false; repeated from any
\* reachable state, Downgrade has disabled the item after finitely many calls
\* (at most one per unit of count or per tier, and one more); repeated from
\* the disabled state, Upgrade reaches a state it no longer changes.
C22_RatchetWalk ==
    /\ last.op = "Downgrade" => (last.changed <=> ItemBefore.Enabled)
    /\ (run.op = "Downgrade" /\ run.n >= DowngradesToOff(run.start)) => ~TheItem.Enabled
    /\ (run.op = "Upgrade" /\ ~run.start.Enabled /\ run.n >= UpgradesToTop(run.start)) =>
           Upgrade(TheItem).item = TheItem

\* C23 (ItemSpec): disabled is the floor state.  Downgrade on a disabled item
\* returns false and leaves the item (enabled, upgrade index, count, temple
\* index) as it is; Upgrade on a disabled item returns true and changes nothing
\* but enabled, which it sets.
C23_DisabledFloor ==
    /\ (last.op = "Downgrade" /\ ~ItemBefore.Enabled) =>
           /\ ~last.changed
           /\ TheItem = ItemBefore
    /\ (last.op = "Upgrade" /\ ~ItemBefore.Enabled) =>
           /\ last.changed
           /\ TheItem = [ItemBefore EXCEPT !.Enabled = TRUE]

\* C23 witness: Upgrade on a disabled item with a progression of 2 or more
\* tiers enabled it at tier 0.
C23_Witness ==
    /\ last.op = "Upgrade"
    /\ ~ItemBefore.Enabled
    /\ ~IsCountable(ItemBefore)
    /\ ProgressionLength(ItemBefore) >= 2
    /\ TheItem.Enabled
    /\ TheItem.upgradeIndex = 0

\* C27 (ItemSpec): the upgrade index stays in bounds: it is never negative, below
\* the length of the item progression when that is non-empty, and below the
\* length of the capacity progression when that is non-empty.
C27_UpgradeIndexInBounds ==
    /\ TheItem.upgradeIndex >= 0
    /\ TheItem.ItemProgression # <<>> =>
           TheItem.upgradeIndex < Len(TheItem.ItemProgression)
    /\ TheItem.CapacityProgression # <<>> =>
           TheItem.upgradeIndex < Len(TheItem.CapacityProgression)

\* C29 (ItemSpec): a disabled item is in its base state: upgrade index 0 and
\* count 0.  A Downgrade disables an item only from tier 0, or, a countable
\* one, from a count smaller than the step.
C29_DisabledIsBase ==
    /\ ~TheItem.Enabled => (TheItem.upgradeIndex = 0 /\ TheItem.count = 0)
    /\ (last.op = "Downgrade" /\ ItemBefore.Enabled /\ ~TheItem.Enabled) =>
           IF IsCountable(ItemBefore)
           THEN ItemBefore.count - ItemBefore.CountStep < 0
           ELSE ItemBefore.upgradeIndex = 0

\* C29 witness: a run of Downgrade calls took a countable item from a count of 2
\* or more to the disabled state.
C29_Witness ==
    /\ run.op = "Downgrade"
    /\ IsCountable(run.start)
    /\ run.start.Enabled
    /\ run.start.count >= 2
    /\ ~TheItem.Enabled
    /\ TheItem.count = 0

TempleIndices(its) == [k \in 1..Len(its) |-> its[k].templeIndex]

\* C24 (Spec): temple cycling is independent of the acquisition state.  A wheel
\* event over a medallion, enabled or not, moves its temple index one step in
\* the wheel direction (wrapping), changes nothing else of it and no other
\* item, and leaves the undo and the redo stack as they are; a wheel event
\* over any other item has the effect of ClickLeft (up) or ClickRight (down) at
\* a point over that item; clicks, Undo and Redo, which call Upgrade and
\* Downgrade, never change a temple index.
C24_TempleIndependent ==
    /\ last.op = "WheelTemple" =>
           LET i == last.itemIndex
               b == At(last.before.items, i)
               step == IF last.isUpgrade THEN 1 ELSE Len(temples) - 1
           IN  /\ b.IsMedallion
               /\ items = [last.before.items EXCEPT
                             ![i + 1] = [b EXCEPT !.templeIndex =
                                            (b.templeIndex + step) % Len(temples)]]
               /\ undoStack = last.before.undoStack
               /\ redoStack = last.before.redoStack
    /\ last.op = "Wheel" =>
           \A p \in Points :
               getItemIndexByPos(last.before, p[1], p[2]) = last.itemIndex =>
                   Tracker = IF last.isUpgrade
                             THEN ClickLeft(last.before, p[1], p[2])
                             ELSE ClickRight(last.before, p[1], p[2])
    /\ last.op \in {"ClickLeft", "ClickRight", "Wheel", "Undo", "Redo"} =>
           TempleIndices(items) = TempleIndices(last.before.items)

\* C24 witness: the wheel turned down over the disabled medallion, with an
\* entry waiting to be redone: the index wrapped from the first label to the last.
C24_Witness ==
    /\ last.op = "WheelTemple"
    /\ ~last.isUpgrade
    /\ ~At(items, last.itemIndex).Enabled
    /\ At(items, last.itemIndex).templeIndex = Len(temples) - 1
    /\ redoStack # <<>>

\* C25 (HitSpec): a click or wheel event at a point acts on the item with the
\* smallest catalog index whose rectangle contains the point and on no other
\* item, also where rectangles overlap; at a point inside no rectangle it
\* changes no item and pushes no history entry.
C25_HitTest ==
    prev.key \in {"MouseLeft", "MouseRight", "MouseWheel"} =>
        LET b == last.before
            hits == {k \in 0..(Len(b.items) - 1) :
                        InRect(At(b.items, k), prev.point[1], prev.point[2])}
        IN  IF hits = {}
            THEN Tracker = b /\ last.itemIndex = -1
            ELSE LET i == Smallest(hits)
                     it == At(b.items, i)
                 IN  /\ last.itemIndex = i
                     /\ \A k \in 0..(Len(items) - 1) : k # i => At(items, k) = At(b.items, k)
                     /\ At(items, i) =
                          IF prev.key = "MouseWheel" /\ it.IsMedallion
                          THEN CycleTemple(it, last.isUpgrade)
                          ELSE IF prev.key = "MouseLeft"
                                  \/ (prev.key = "MouseWheel" /\ last.isUpgrade)
                          THEN Upgrade(it).item
                          ELSE Downgrade(it).item
                     /\ \A e \in {undoStack[n] : n \in 1..Len(undoStack)} \ 
                               {b.undoStack[n] : n \in 1..Len(b.undoStack)} :
                            e.itemIndex = i

\* C25 witness: a left click at (20, 20), inside the rectangles of items 0 and
\* 1, raised item 0 and left item 1 alone.
C25_Witness ==
    /\ prev.key = "MouseLeft"
    /\ prev.point = <<20, 20>>
    /\ InRect(At(items, 0), 20, 20)
    /\ InRect(At(items, 1), 20, 20)
    /\ last.itemIndex = 0
    /\ last.changed
    /\ At(items, 0).upgradeIndex = 1
    /\ At(items, 1) = At(last.before.items, 1)

Entries(stack) == {stack[n] : n \in 1..Len(stack)}

Reverse(stack) == [n \in 1..Len(stack) |-> stack[Len(stack) + 1 - n]]

Names(its) == [k \in 1..Len(its) |-> its[k].Name]

\* The entries of both stacks index the catalog.
HistoryInCatalog(its, undo, redo) ==
    \A e \in Entries(undo) \cup Entries(redo) :
        e.itemIndex \in 0..(Len(its) - 1)

\* C26 (HistorySpec): in every state reached by clicks, wheel events, keypad
\* chords, Undo, Redo and Reset (also to a shorter catalog), every entry of
\* the undo and of the redo stack has an index inside the catalog and refers
\* to the item its transition was applied to: an entry is pushed with the index
\* of the item the event acted on, Undo and Redo only move entries between the
\* stacks, and the catalog changes its items or their order only in a step
\* that empties both stacks.
C26_HistoryValid ==
    /\ HistoryInCatalog(items, undoStack, redoStack)
    /\ [][ /\ HistoryInCatalog(items', undoStack', redoStack')
           /\ Names(items') # Names(items) => undoStack' = <<>> /\ redoStack' = <<>>
           /\ prev'.key = "Home" /\ prev'.result = "reset" =>
                  undoStack' = <<>> /\ redoStack' = <<>>
           /\ prev'.key \in {"Undo", "Redo"} =>
                  undoStack' \o Reverse(redoStack') = undoStack \o Reverse(redoStack)
           /\ (prev'.key \in {"MouseLeft", "MouseRight", "MouseWheel", "Char"}
                 /\ undoStack' # undoStack) =>
                  /\ undoStack' = Append(undoStack,
                                         [itemIndex |-> last'.itemIndex,
                                          isUpgrade |-> last'.isUpgrade])
                  /\ last'.itemIndex \in 0..(Len(items) - 1)
                  /\ \A k \in 0..(Len(items) - 1) :
                         k # last'.itemIndex => At(items', k) = At(items, k)
                  /\ At(items', last'.itemIndex) =
                         fn(At(items, last'.itemIndex), last'.isUpgrade).item
         ]_vars

\* C26 witness: after Reset to the shorter catalog, with entries recorded under
\* the longer one dropped, two clicks and an Undo left an entry on each stack.
C26_Witness ==
    /\ Len(items) < Len(StartConfig.Items)
    /\ undoStack # <<>>
    /\ redoStack # <<>>
    /\ undoStack[1].itemIndex # redoStack[1].itemIndex

\* C28 (StartSpec): changeItem is called with a valid catalog index only: each
\* of the three default calls of New gets an index i with 0 <= i < len(items),
\* for every catalog passed to New, and so does every call from ClickLeft,
\* ClickRight and Wheel.
C28_ValidIndex ==
    /\ call.fn = "New" =>
           \A n \in 1..Len(call.calls) : call.calls[n] \in 0..(Len(call.catalog) - 1)
    /\ (last.op \in PointerOps /\ last.itemIndex >= 0) =>
           last.itemIndex \in 0..(Len(last.before.items) - 1)

\* The three default items of a catalog, by name.
DefaultIndices(t) ==
    << getItemIndexByName(t, "Gold Skulltula Token"),
       getItemIndexByName(t, "Kokiri Tunic"),
       getItemIndexByName(t, "Kokiri Boots") >>

\* C30 (StartSpec): right after New on a catalog holding the three default
\* items, all disabled, the three are enabled and the undo stack is exactly
\* their three upgrade entries in the order token, tunic, boots; three Undo
\* calls at startup disable the three again; Reset with the same catalog leaves
\* both stacks empty and the three items disabled.
C30_StartupHistory ==
    LET d == DefaultIndices(Tracker)
    IN  (appErr = "none" /\ call.fn = "New" /\ Len(call.calls) = 3) =>
            /\ last.op = "New" =>
                   /\ \A n \in 1..3 : At(items, d[n]).Enabled
                   /\ undoStack = [n \in 1..3 |-> [itemIndex |-> d[n], isUpgrade |-> TRUE]]
                   /\ redoStack = <<>>
            /\ (hist.phase = "undos" /\ hist.n = 3 /\ hist.k = 3 /\ events = 0) =>
                   \A n \in 1..3 : ~At(items, d[n]).Enabled
            /\ (prev.key = "Home" /\ prev.result = "reset" /\ config.Items = call.catalog) =>
                   /\ undoStack = <<>>
                   /\ redoStack = <<>>
                   /\ items = config.Items
                   /\ \A n \in 1..3 : ~At(items, d[n]).Enabled

====
